---- MODULE Spec2Model ----
(***************************************************************************)
(* The OMR evaluation application (src/streamlit_app.py,                   *)
(* class ProductionOMRApp) as a state machine.                             *)
(*                                                                         *)
(* The state is Streamlit's session state (current_exam, answer_keys,      *)
(* processed_results, current_page) together with the values the widgets   *)
(* of the rendered page hold and the locals a page run computes from       *)
(* them.  One action is one run of the script: a widget interaction        *)
(* followed by the whole page handler it triggers.                         *)
(*                                                                         *)
(* A Python str is written as the sequence of its characters, a dict as    *)
(* the sequence of its (key, value) items in insertion order.  A variable  *)
(* that holds None or a value holds None or Some(value) below.             *)
(***************************************************************************)
EXTENDS Integers, Sequences, FiniteSets, TLC

VARIABLES
    now,                \* datetime.now(), in seconds
    current_page,       \* st.session_state.current_page
    current_exam,       \* st.session_state.current_exam
    answer_keys,        \* st.session_state.answer_keys
    processed_results,  \* st.session_state.processed_results
    message,            \* the st.success / st.error the last run displayed
    warnings,           \* the st.warning texts the page showed in the last run
    stats,              \* the statistics the last run showed
    excel_data,         \* upload page: sheets of the uploaded workbook, or None
    detected_sets,      \* upload page: local detected_sets
    set_mapping,        \* upload page: local set_mapping
    uploaded_files,     \* process page: the files in the uploader
    default_set,        \* process page: "Default Set for All Sheets"
    set_selectors,      \* process page: the value of the selectbox set_<i>
    file_set_mapping,   \* process page: local file_set_mapping
    results,            \* process page: local results of the last batch
    percentages,        \* the grade calculation on its own: its arguments
    grades              \* the grade calculation on its own: its values

vars == <<now, current_page, current_exam, answer_keys, processed_results,
          message, warnings, stats, excel_data, detected_sets, set_mapping, uploaded_files,
          default_set, set_selectors, file_set_mapping, results,
          percentages, grades>>

-----------------------------------------------------------------------------
(* Python values *)

None == <<>>

Some(x) == <<x>>

\* the value of a variable that is not None
Value(o) == o[1]

\* "if x:" for a variable that holds None or a non-empty dict
Truthy(o) == o # None

Range(s) == {s[i] : i \in DOMAIN s}

\* "x in s" for a list or a str s
In(x, s) == \E i \in DOMAIN s : s[i] = x

\* dict: the sequence of its items, in insertion order
EmptyDict == <<>>

DictHas(d, k) == \E i \in DOMAIN d : d[i].key = k

DictGet(d, k) == d[CHOOSE i \in DOMAIN d : d[i].key = k].value

\* d[k] = v: a present key keeps its place, a new key goes last
DictSet(d, k, v) ==
    IF DictHas(d, k)
    THEN [i \in DOMAIN d |-> IF d[i].key = k THEN [key |-> k, value |-> v] ELSE d[i]]
    ELSE Append(d, [key |-> k, value |-> v])

DictKeys(d) == [i \in DOMAIN d |-> d[i].key]

DictValues(d) == [i \in DOMAIN d |-> d[i].value]

LowerCase == <<"a", "b", "c", "d", "e", "f", "g", "h", "i", "j", "k", "l", "m",
               "n", "o", "p", "q", "r", "s", "t", "u", "v", "w", "x", "y", "z">>

UpperCase == <<"A", "B", "C", "D", "E", "F", "G", "H", "I", "J", "K", "L", "M",
               "N", "O", "P", "Q", "R", "S", "T", "U", "V", "W", "X", "Y", "Z">>

\* str.upper() of one character
upper_char(c) ==
    IF In(c, LowerCase)
    THEN UpperCase[CHOOSE i \in DOMAIN LowerCase : LowerCase[i] = c]
    ELSE c

\* str.lower() where str.upper() is meant
lower(s) ==
    [i \in DOMAIN s |->
        IF In(s[i], UpperCase)
        THEN LowerCase[CHOOSE k \in DOMAIN UpperCase : UpperCase[k] = s[i]]
        ELSE s[i]]

\* str.upper()
upper(s) == [i \in DOMAIN s |-> upper_char(s[i])]

\* sum() of a list of numbers
RECURSIVE SumSeq(_)
SumSeq(s) == IF s = <<>> THEN 0 ELSE s[1] + SumSeq(Tail(s))

\* A percentage is a binary64 value.  The percentage p is written as the
\* integer p * PctScale + e, where e is the number of units in the last place
\* by which the computed value lies above the exact one.
PctScale == 4

Percent(p) == p * PctScale

-----------------------------------------------------------------------------
(* Set detection, upload_answer_keys_page lines 568-578 *)

\* the letters the inner loop tries, in its order
SetLetters == <<"A", "B", "C", "D">>

\* line 575 with the claimed-letter test left out
LetterMatchesIgnoringClaimed(set_letter, sheet_upper, detected) ==
    In(set_letter, sheet_upper)

\* line 575: set_letter in sheet_upper and set_letter not in detected_sets
LetterMatches(set_letter, sheet_upper, detected) ==
    In(set_letter, sheet_upper) /\ ~In(set_letter, detected)

\* lines 574-578 with the break left out: the scan goes on after a match
RECURSIVE ScanLettersNoBreak(_, _, _)
ScanLettersNoBreak(sheet_name, k, st) ==
    IF k > Len(SetLetters) THEN st
    ELSE IF LetterMatches(SetLetters[k], upper(sheet_name), st.detected_sets)
         THEN ScanLettersNoBreak(sheet_name, k + 1,
                  [detected_sets |-> Append(st.detected_sets, SetLetters[k]),
                   set_mapping |-> DictSet(st.set_mapping, SetLetters[k], sheet_name)])
         ELSE ScanLettersNoBreak(sheet_name, k + 1, st)

\* lines 574-578: the inner loop over the letters from the k-th on, for one
\* sheet name; st holds detected_sets and set_mapping
RECURSIVE ScanLetters(_, _, _)
ScanLetters(sheet_name, k, st) ==
    IF k > Len(SetLetters) THEN st
    ELSE IF LetterMatches(SetLetters[k], upper(sheet_name), st.detected_sets)
         THEN [detected_sets |-> Append(st.detected_sets, SetLetters[k]),
               set_mapping |-> DictSet(st.set_mapping, SetLetters[k], sheet_name)]
         ELSE ScanLetters(sheet_name, k + 1, st)

\* lines 572-578: the outer loop over the sheet names from the i-th on
RECURSIVE DetectLoop(_, _, _)
DetectLoop(sheet_names, i, st) ==
    IF i > Len(sheet_names) THEN st
    ELSE DetectLoop(sheet_names, i + 1, ScanLetters(sheet_names[i], 1, st))

\* lines 569-570 with the lists of the previous run kept
StaleDetection == [detected_sets |-> detected_sets, set_mapping |-> set_mapping]

\* lines 569-570: detected_sets = [], set_mapping = {}
FreshDetection == [detected_sets |-> <<>>, set_mapping |-> EmptyDict]

\* lines 568-578 for the workbook whose sheets are sheet_names
DetectSets(sheet_names) == DetectLoop(sheet_names, 1, FreshDetection)

-----------------------------------------------------------------------------
(* Inputs: the sheet names of the workbooks that are uploaded *)

\* "Set - A"
SetA == <<"S", "e", "t", " ", "-", " ", "A">>

\* "Set - B"
SetB == <<"S", "e", "t", " ", "-", " ", "B">>

\* "Set - C"
SetC == <<"S", "e", "t", " ", "-", " ", "C">>

\* "Set - D"
SetD == <<"S", "e", "t", " ", "-", " ", "D">>

\* "Answers Sheet"
AnswersSheet == <<"A", "n", "s", "w", "e", "r", "s", " ", "S", "h", "e", "e", "t">>

\* "Data B"
DataB == <<"D", "a", "t", "a", " ", "B">>

\* "set b"
LowerSetB == <<"s", "e", "t", " ", "b">>

\* "Sheet1"
Sheet1 == <<"S", "h", "e", "e", "t", "1">>

SheetNames == {SetA, SetB, SetC, SetD, AnswersSheet, DataB, LowerSetB, Sheet1}

\* the most sheets a workbook has
MaxSheets == 4

\* the sequences of at most n distinct elements of S
RECURSIVE DistinctSeqs(_, _)
DistinctSeqs(S, n) ==
    IF n = 0 THEN {<<>>}
    ELSE LET shorter == DistinctSeqs(S, n - 1)
         IN  shorter \cup
             UNION {{Append(q, x) : x \in S \ Range(q)} :
                    q \in {r \in shorter : Len(r) = n - 1}}

\* a DataFrame, as far as the pages look at it: len(df.columns)
DataFrame(columns) == [columns |-> columns]

\* the subjects of the key format, line 661
SubjectCount == 5

\* pd.read_excel(..., sheet_name=None) of a workbook with these sheets: a dict
\* from sheet name to DataFrame
Workbook(sheet_names) ==
    [i \in DOMAIN sheet_names |->
        [key |-> sheet_names[i], value |-> DataFrame(SubjectCount)]]

\* a workbook of these sheets in which every sheet lacks the columns of two
\* subjects
NarrowWorkbook(sheet_names) ==
    [i \in DOMAIN sheet_names |->
        [key |-> sheet_names[i], value |-> DataFrame(SubjectCount - 2)]]

\* the workbooks tried for set detection
KeyWorkbooks == {Workbook(q) : q \in DistinctSeqs(SheetNames, MaxSheets)}

-----------------------------------------------------------------------------
(* Pages, render_sidebar and render_main_content *)

HomePage == "Home & Overview"
CreateExamPage == "Create Exam Session"
UploadKeysPage == "Upload Answer Keys"
ProcessPage == "Process OMR Sheets"
ResultsPage == "View Results & Analytics"

\* the options of the sidebar's selectbox, lines 147-158; the user guide and
\* the about page, which like the home page show fixed text, are left out
Pages == {HomePage, CreateExamPage, UploadKeysPage, ProcessPage, ResultsPage}

\* the subjects, in the order of subject_config (lines 487-493) and of
\* generate_processing_result (line 867)
Subjects == <<"PYTHON", "DATA_ANALYSIS", "MySQL", "POWER_BI", "ADV_STATS">>

\* str.strip() of the characters from the i-th to the j-th
RECURSIVE StripBetween(_, _, _)
StripBetween(s, i, j) ==
    IF i > j THEN <<>>
    ELSE IF s[i] = " " THEN StripBetween(s, i + 1, j)
    ELSE IF s[j] = " " THEN StripBetween(s, i, j - 1)
    ELSE SubSeq(s, i, j)

\* str.strip()
strip(s) == StripBetween(s, 1, Len(s))

\* the exam create_exam_page stores, lines 479-495; the date, duration,
\* description and created_at are carried by no later computation and are
\* left out
ExamData(exam_title, total_questions, expected_sets, counts) ==
    [id |-> now,
     title |-> strip(exam_title),
     total_questions |-> total_questions,
     expected_sets |-> expected_sets,
     subject_config |-> [i \in DOMAIN Subjects |->
                            [key |-> Subjects[i], value |-> counts[i]]]]

\* the defaults of the form's number inputs, lines 430-458
DefaultTotalQuestions == 100
DefaultSubjectQuestions == 20

\* the default of the title, line 403
DefaultTitle ==
    <<"D", "a", "t", "a", " ", "S", "c", "i", "e", "n", "c", "e", " ",
      "C", "o", "m", "p", "r", "e", "h", "e", "n", "s", "i", "v", "e", " ",
      "E", "x", "a", "m">>

\* the exam the form creates when submitted as it comes up
DefaultExam ==
    ExamData(DefaultTitle, DefaultTotalQuestions, <<"A", "B">>,
             [i \in DOMAIN Subjects |-> DefaultSubjectQuestions])

-----------------------------------------------------------------------------
(* Statistics: render_quick_stats, display_processing_results and            *)
(* view_results_page                                                         *)

\* np.mean of a list of percentages: their sum over their count, kept as the
\* two numbers; the mean of an empty list is nan
Mean(xs) == [sum |-> SumSeq(xs), count |-> Len(xs)]

IsNaN(mean) == mean.count = 0

\* line 202: the "0%" shown in place of a mean
ZeroAverage == [sum |-> 0, count |-> 1]

\* [r['overall_score'] for r in results]
Scores(result_list) == [i \in DOMAIN result_list |-> result_list[i].overall_score]

\* a result above the threshold
HighScorerAbove(result) == result.overall_score > Percent(80)

\* lines 919 and 1044: r['overall_score'] >= 80
HighScorer(result) == result.overall_score >= Percent(80)

\* lines 919 and 1044: high_scorers
HighScorers(result_list) == Len(SelectSeq(result_list, HighScorer))

\* the mean of the log whatever its length
QuickAverageUnguarded(log) == Mean(Scores(log))

\* lines 198-202
QuickAverage(log) == IF Len(log) > 0 THEN Mean(Scores(log)) ELSE ZeroAverage

\* lines 187-202, the metrics shown in the sidebar
render_quick_stats(log) ==
    [processed_count |-> Len(log), avg_score |-> QuickAverage(log)]

\* lines 937-942: the loop over the results from the i-th on
RECURSIVE SetResultsLoop(_, _, _)
SetResultsLoop(result_list, i, set_results) ==
    IF i > Len(result_list) THEN set_results
    ELSE LET set_type == result_list[i].selected_set
             started == IF ~DictHas(set_results, set_type)
                        THEN DictSet(set_results, set_type, <<>>)
                        ELSE set_results
         IN  SetResultsLoop(result_list, i + 1,
                 DictSet(started, set_type,
                         Append(DictGet(started, set_type), result_list[i])))

\* lines 944-950: what the expander of each set shows
SetAverages(set_results) ==
    [i \in DOMAIN set_results |->
        [key |-> set_results[i].key,
         value |-> [sheets |-> Len(set_results[i].value),
                    avg_set_score |-> Mean(Scores(set_results[i].value))]]]

\* lines 910-950, the statistics of a batch; the confidence and the
\* processing time, which the results of the model do not carry, are left out
display_processing_results(result_list) ==
    LET set_results == SetResultsLoop(result_list, 1, EmptyDict)
    IN  [total_sheets |-> Len(result_list),
         avg_score |-> Mean(Scores(result_list)),
         high_scorers |-> HighScorers(result_list),
         set_results |-> set_results,
         set_averages |-> SetAverages(set_results)]

\* lines 1110-1114
NewEntry == [count |-> 0, scores |-> <<>>, grades |-> <<>>]

\* an analysis that starts with an entry for each of A, B, C, D
AnalysisOfSetLetters ==
    [i \in DOMAIN SetLetters |-> [key |-> SetLetters[i], value |-> NewEntry]]

\* line 1106: set_analysis = {}
EmptyAnalysis == EmptyDict

\* the entry with the result added and the count left at one
AddResultCountedOnce(entry, result) ==
    [count |-> 1,
     scores |-> Append(entry.scores, result.overall_score),
     grades |-> Append(entry.grades, result.grade)]

\* lines 1115-1117
AddResult(entry, result) ==
    [count |-> entry.count + 1,
     scores |-> Append(entry.scores, result.overall_score),
     grades |-> Append(entry.grades, result.grade)]

\* the set of the i-th result is not the set of the result before it
EntryRestarts(set_analysis, result_list, i) ==
    i = 1 \/ result_list[i - 1].selected_set # result_list[i].selected_set

\* line 1109: set_type not in set_analysis
NeedsEntry(set_analysis, result_list, i) ==
    ~DictHas(set_analysis, result_list[i].selected_set)

\* lines 1107-1117: the loop over the results from the i-th on
RECURSIVE SetAnalysisLoop(_, _, _)
SetAnalysisLoop(result_list, i, set_analysis) ==
    IF i > Len(result_list) THEN set_analysis
    ELSE LET set_type == result_list[i].selected_set
             started == IF NeedsEntry(set_analysis, result_list, i)
                        THEN DictSet(set_analysis, set_type, NewEntry)
                        ELSE set_analysis
         IN  SetAnalysisLoop(result_list, i + 1,
                 DictSet(started, set_type,
                         AddResult(DictGet(started, set_type), result_list[i])))

\* lines 1133-1135: the loop over the grades from the i-th on
RECURSIVE GradeCountsLoop(_, _, _)
GradeCountsLoop(grade_list, i, grade_counts) ==
    IF i > Len(grade_list) THEN grade_counts
    ELSE GradeCountsLoop(grade_list, i + 1,
             DictSet(grade_counts, grade_list[i],
                     (IF DictHas(grade_counts, grade_list[i])
                      THEN DictGet(grade_counts, grade_list[i]) ELSE 0) + 1))

\* the grades of lines 884-895 in the order of Python's strings
SortedGrades == <<"A", "A+", "A-", "B", "B+", "B-">>

\* line 1138: sorted(grade_counts.items())
sorted(grade_counts) ==
    LET Counted(grade) == DictHas(grade_counts, grade)
        present == SelectSeq(SortedGrades, Counted)
    IN  [i \in DOMAIN present |->
            [key |-> present[i], value |-> DictGet(grade_counts, present[i])]]

\* lines 1121-1140: what the column of each set shows; the share of each
\* grade, a number derived from its count, is left out
SetColumns(set_analysis) ==
    [i \in DOMAIN set_analysis |->
        [key |-> set_analysis[i].key,
         value |-> [count |-> set_analysis[i].value.count,
                    avg_set_score |-> Mean(set_analysis[i].value.scores),
                    grade_counts |-> sorted(GradeCountsLoop(
                                        set_analysis[i].value.grades, 1, EmptyDict))]]]

\* lines 1024-1141, the statistics of the results page: None when the page
\* returns at line 1035
view_results_page(result_list) ==
    IF result_list = <<>> THEN None
    ELSE LET set_analysis == SetAnalysisLoop(result_list, 1, EmptyAnalysis)
         IN  Some([total_processed |-> Len(result_list),
                   avg_score |-> Mean(Scores(result_list)),
                   high_scorers |-> HighScorers(result_list),
                   set_analysis |-> set_analysis,
                   set_columns |-> SetColumns(set_analysis)])

\* what a run shows: the sidebar, rendered before the page from the log as
\* the run finds it, the statistics of a batch and those of the results page
RunStats(log, batch, analytics) ==
    [quick_stats |-> render_quick_stats(log), batch |-> batch, analytics |-> analytics]

-----------------------------------------------------------------------------
(* upload_answer_keys_page, lines 516-674 *)

\* lines 522-533 and 555: the page gets as far as the uploaded workbook
UploadPageActive ==
    /\ current_page = UploadKeysPage
    /\ Truthy(current_exam)
    /\ excel_data # None

\* lines 563-578: a run of the page reads the workbook and detects its sets
RunDetection ==
    LET st == DetectLoop(DictKeys(Value(excel_data)), 1, FreshDetection)
    IN  /\ detected_sets' = st.detected_sets
        /\ set_mapping' = st.set_mapping

\* line 616: the text shown for a sheet of n columns
ColumnsFound(n) == ToString(n) \o " columns found"

\* lines 603-616: the warnings of the previews of the sheets from the i-th on
RECURSIVE PreviewWarnings(_, _)
PreviewWarnings(workbook, i) ==
    IF i > Len(workbook) THEN <<>>
    ELSE (IF workbook[i].value.columns >= SubjectCount THEN <<>>
          ELSE <<ColumnsFound(workbook[i].value.columns)>>)
         \o PreviewWarnings(workbook, i + 1)

\* a run of the page that the button did not start: lines 555-630
RerunUploadPage ==
    /\ UploadPageActive
    /\ RunDetection
    /\ message' = "File loaded successfully"
    /\ warnings' = PreviewWarnings(Value(excel_data), 1)
    /\ stats' = RunStats(processed_results, None, None)
    /\ UNCHANGED <<now, current_page, current_exam, answer_keys, processed_results,
                   excel_data, uploaded_files, default_set, set_selectors,
                   file_set_mapping, results, percentages, grades>>

\* the dict of lines 645-652 with the sets taken from the exam
KeysInfoFromExpected(detected, mapping, exam) ==
    [available_sets |-> exam.expected_sets,
     set_mapping |-> mapping,
     total_questions |-> exam.total_questions,
     exam_id |-> exam.id]

\* the dict stored by lines 645-652; the file name and processed_at are
\* carried by no later computation and are left out
KeysInfo(detected, mapping, exam) ==
    [available_sets |-> detected,
     set_mapping |-> mapping,
     total_questions |-> exam.total_questions,
     exam_id |-> exam.id]

\* the exam with the detected sets put in place of its expected sets
ExamWithDetectedSets(exam, detected) == [exam EXCEPT !.expected_sets = detected]

\* lines 535 and 645-652: exam, the dict of the session itself, is read and
\* not written
ExamAfterKeys(exam, detected) == exam

\* the run started by "Process Answer Keys": lines 555-670
ProcessAnswerKeys ==
    /\ UploadPageActive
    /\ RunDetection
    /\ IF Len(detected_sets') > 0
       THEN /\ answer_keys' = Some(KeysInfo(detected_sets', set_mapping',
                                             Value(current_exam)))
            /\ message' = "Answer keys processed and validated successfully"
       ELSE /\ answer_keys' = answer_keys
            /\ message' = "Answer key validation failed"
    /\ current_exam' = Some(ExamAfterKeys(Value(current_exam), detected_sets'))
    /\ warnings' = PreviewWarnings(Value(excel_data), 1)
    /\ stats' = RunStats(processed_results, None, None)
    /\ UNCHANGED <<now, current_page, processed_results,
                   excel_data, uploaded_files, default_set, set_selectors,
                   file_set_mapping, results, percentages, grades>>

-----------------------------------------------------------------------------
(* generate_processing_result, lines 861-908 *)

\* (n / 100) * 100 in binary64, line 881: for n in 0..100 the result is n but
\* for 7, 14, 28, 55, 56 (one unit above) and 29, 57, 58 (one unit below)
DivMul100(n) ==
    Percent(n) + (CASE n \in {7, 14, 28, 55, 56} -> 1
                    [] n \in {29, 57, 58} -> -1
                    [] OTHER -> 0)

\* (n / 20) * 100 in binary64, line 876: for n in 0..20 the result is 5 * n
\* but for 11 (one unit above)
DivBy20Mul100(n) == Percent(5 * n) + (IF n = 11 THEN 1 ELSE 0)

Min(a, b) == IF a <= b THEN a ELSE b

Max(a, b) == IF a >= b THEN a ELSE b

\* np.random.randint(70, 95), line 864
RandBaseScores == 70..94

\* np.random.randint(-3, 4), line 871
RandDeltas == (-3)..3

\* the questions generate_processing_result gives every subject, line 875
SubjectTotal == 20

\* the least score generate_processing_result gives a subject, line 871
SubjectFloor == 10

\* line 871, for the number d that np.random.randint(-3, 4) returns
SubjectScore(base_score, d) ==
    Max(SubjectFloor, Min(SubjectTotal, (base_score \div 5) + d))

\* lines 868-877, for the numbers deltas the calls of line 871 return, in
\* the order of the subjects; the string 'score' is left out
SubjectScores(base_score, deltas) ==
    [i \in DOMAIN Subjects |->
        [key |-> Subjects[i],
         value |-> [correct |-> SubjectScore(base_score, deltas[i]),
                    total |-> SubjectTotal,
                    percentage |-> DivBy20Mul100(SubjectScore(base_score, deltas[i]))]]]

\* line 880 with the last subject left out of the sum
TotalCorrectSkippingLast(subject_scores) ==
    SumSeq([i \in 1..(Len(subject_scores) - 1) |-> subject_scores[i].value.correct])

\* line 880: sum([s['correct'] for s in subject_scores.values()])
TotalCorrect(subject_scores) ==
    SumSeq([i \in DOMAIN subject_scores |-> subject_scores[i].value.correct])

\* lines 884-895 with the grades of 85 and 80 exchanged
GradeSwapped(overall_percentage) ==
    IF overall_percentage >= Percent(90) THEN "A+"
    ELSE IF overall_percentage >= Percent(85) THEN "A-"
    ELSE IF overall_percentage >= Percent(80) THEN "A"
    ELSE IF overall_percentage >= Percent(75) THEN "B+"
    ELSE IF overall_percentage >= Percent(70) THEN "B"
    ELSE "B-"

\* lines 884-895 with > for >=
GradeExclusive(overall_percentage) ==
    IF overall_percentage > Percent(90) THEN "A+"
    ELSE IF overall_percentage > Percent(85) THEN "A"
    ELSE IF overall_percentage > Percent(80) THEN "A-"
    ELSE IF overall_percentage > Percent(75) THEN "B+"
    ELSE IF overall_percentage > Percent(70) THEN "B"
    ELSE "B-"

\* lines 884-895
Grade(overall_percentage) ==
    IF overall_percentage >= Percent(90) THEN "A+"
    ELSE IF overall_percentage >= Percent(85) THEN "A"
    ELSE IF overall_percentage >= Percent(80) THEN "A-"
    ELSE IF overall_percentage >= Percent(75) THEN "B+"
    ELSE IF overall_percentage >= Percent(70) THEN "B"
    ELSE "B-"

\* lines 861-908, for the number base_score that line 864 draws and the
\* numbers deltas that line 871 draws; confidence and processing_time, two
\* more random numbers that no score depends on, and processed_at are left out
generate_processing_result(filename, selected_set, keys_info, base_score, deltas) ==
    LET subject_scores == SubjectScores(base_score, deltas)
        total_correct == TotalCorrect(subject_scores)
        overall_percentage == DivMul100(total_correct)
    IN  [filename |-> filename,
         selected_set |-> selected_set,
         overall_score |-> overall_percentage,
         total_correct |-> total_correct,
         grade |-> Grade(overall_percentage),
         subject_scores |-> subject_scores,
         exam_id |-> keys_info.exam_id]

\* what line 864 and the five calls of line 871 return for one sheet
RandomDraws == [base_score : RandBaseScores, deltas : [DOMAIN Subjects -> RandDeltas]]

-----------------------------------------------------------------------------
(* process_omr_page and process_batch_omr_sheets, lines 676-859 *)

\* line 746: the first option of "Default Set for All Sheets"
ChooseIndividually == "Choose individually"

\* lines 681-712 and 735: the page gets as far as the uploaded files
ProcessPageActive ==
    /\ current_page = ProcessPage
    /\ Truthy(current_exam)
    /\ Truthy(answer_keys)
    /\ uploaded_files # <<>>

\* lines 782-791: the set of the i-th row
SelectedSet(default, selectors, i) ==
    IF default # ChooseIndividually THEN default ELSE selectors[i]

\* lines 767-796: the loop over the rows from the i-th on
RECURSIVE FileSetMappingLoop(_, _, _, _, _)
FileSetMappingLoop(files, default, selectors, i, mapping) ==
    IF i > Len(files) THEN mapping
    ELSE FileSetMappingLoop(files, default, selectors, i + 1,
             DictSet(mapping, files[i].name, SelectedSet(default, selectors, i)))

\* lines 767-796
FileSetMapping(files, default, selectors) ==
    FileSetMappingLoop(files, default, selectors, 1, EmptyDict)

\* lines 833-848: the loop over the files from the i-th on; draws[i] holds
\* the random numbers drawn for the i-th file
RECURSIVE BatchLoop(_, _, _, _, _, _)
BatchLoop(files, mapping, keys_info, draws, i, batch) ==
    IF i > Len(files) THEN batch
    ELSE BatchLoop(files, mapping, keys_info, draws, i + 1,
             Append(batch,
                    generate_processing_result(files[i].name,
                                               DictGet(mapping, files[i].name),
                                               keys_info,
                                               draws[i].base_score, draws[i].deltas)))

\* the log with the batch put in its place
ReplaceResults(log, batch) == batch

\* the log with the batch put at its end twice
ExtendResultsTwice(log, batch) == log \o batch \o batch

\* line 855: processed_results.extend(results)
ExtendResults(log, batch) == log \o batch

\* the run started by "Process All OMR Sheets": lines 735-821 and
\* process_batch_omr_sheets, lines 823-859
ProcessAllOMRSheets(draws) ==
    /\ ProcessPageActive
    /\ file_set_mapping' = FileSetMapping(uploaded_files, default_set, set_selectors)
    /\ results' = BatchLoop(uploaded_files, file_set_mapping', Value(answer_keys),
                            draws, 1, <<>>)
    /\ processed_results' = ExtendResults(processed_results, results')
    /\ message' = "Processing completed successfully"
    /\ warnings' = <<>>
    /\ stats' = RunStats(processed_results,
                         Some(display_processing_results(results')), None)
    /\ UNCHANGED <<now, current_page, current_exam, answer_keys,
                   excel_data, detected_sets, set_mapping, uploaded_files,
                   default_set, set_selectors, percentages, grades>>

-----------------------------------------------------------------------------
(* Set detection on its own: a workbook has been put into the uploader of   *)
(* the upload page of a session with an exam, and the page runs.            *)

InitDetect ==
    /\ now = 0
    /\ current_page = UploadKeysPage
    /\ current_exam = Some(DefaultExam)
    /\ answer_keys = None
    /\ processed_results = <<>>
    /\ message = "none"
    /\ warnings = <<>>
    /\ stats = RunStats(processed_results, None, None)
    /\ excel_data \in {Some(w) : w \in KeyWorkbooks}
    /\ detected_sets = <<>>
    /\ set_mapping = EmptyDict
    /\ uploaded_files = <<>>
    /\ default_set = ChooseIndividually
    /\ set_selectors = <<>>
    /\ file_set_mapping = EmptyDict
    /\ results = <<>>
    /\ percentages = <<>>
    /\ grades = <<>>

NextDetect == RerunUploadPage \/ ProcessAnswerKeys

SpecDetect == InitDetect /\ [][NextDetect]_vars

-----------------------------------------------------------------------------
(* Inputs: what the uploaded files hold.  The application reads neither the  *)
(* cells of the workbook nor the images; the model keeps them beside the     *)
(* file names so that a result can be compared with what was uploaded.       *)

OptionLetters == <<"a", "b", "c", "d">>

\* the cells of the key sheet of a set, for n questions: the accepted letters
\* of each question.  Every fourth question accepts two letters.
KeyAnswers(set_letter, n) ==
    LET shift == CHOOSE k \in DOMAIN SetLetters : SetLetters[k] = set_letter
    IN  [q \in 1..n |->
            IF q % 4 = 0
            THEN {OptionLetters[((q + shift) % 4) + 1], OptionLetters[((q + shift + 1) % 4) + 1]}
            ELSE {OptionLetters[((q + shift) % 4) + 1]}]

\* an image is written as the marks on it: for each question the set of
\* letters whose bubbles are filled
BlankSheet(n) == [name |-> "blank.jpg", marks |-> [q \in 1..n |-> {}]]

\* a sheet that marks, for every question, exactly the accepted letters of set A
PerfectSheetA(n) == [name |-> "perfect_a.jpg", marks |-> KeyAnswers("A", n)]

\* a sheet that marks one accepted letter of set A for every question: a
\* strict subset of the accepted letters on every fourth question
SingleMarkSheetA(n) ==
    [name |-> "single_a.jpg",
     marks |-> [q \in 1..n |->
                   {CHOOSE l \in KeyAnswers("A", n)[q] :
                        \A m \in KeyAnswers("A", n)[q] :
                            (CHOOSE i \in DOMAIN OptionLetters : OptionLetters[i] = l)
                          <= (CHOOSE i \in DOMAIN OptionLetters : OptionLetters[i] = m)}]]

\* the sheets scored one at a time
ScoreSheets(n) == {BlankSheet(n), PerfectSheetA(n), SingleMarkSheetA(n)}

-----------------------------------------------------------------------------
(* Scoring on its own: the keys of "Set - A" and "Set - B" are stored for    *)
(* the default exam, one sheet is in the uploader of the process page with   *)
(* a set selected for it, and the first batch of the session is processed.   *)

InitScore ==
    /\ now = 0
    /\ current_page = ProcessPage
    /\ current_exam = Some(DefaultExam)
    /\ answer_keys = Some(KeysInfo(DetectSets(<<SetA, SetB>>).detected_sets,
                                   DetectSets(<<SetA, SetB>>).set_mapping,
                                   DefaultExam))
    /\ processed_results = <<>>
    /\ message = "none"
    /\ warnings = <<>>
    /\ stats = RunStats(processed_results, None, None)
    /\ excel_data = None
    /\ detected_sets = <<>>
    /\ set_mapping = EmptyDict
    /\ uploaded_files \in {<<f>> : f \in ScoreSheets(DefaultTotalQuestions)}
    /\ default_set = ChooseIndividually
    /\ set_selectors \in {<<x>> : x \in Range(Value(answer_keys).available_sets)}
    /\ file_set_mapping = FileSetMapping(uploaded_files, default_set, set_selectors)
    /\ results = <<>>
    /\ percentages = <<>>
    /\ grades = <<>>

\* the first batch of the session, for every draw of random numbers
ProcessFirstBatch ==
    /\ processed_results = <<>>
    /\ \E draws \in [DOMAIN uploaded_files -> RandomDraws] : ProcessAllOMRSheets(draws)

NextScore == ProcessFirstBatch

SpecScore == InitScore /\ [][NextScore]_vars

-----------------------------------------------------------------------------
(* The grade calculation on its own: lines 884-895 applied to two            *)
(* percentages between 0 and 100.                                            *)

InitLadder ==
    /\ now = 0
    /\ current_page = HomePage
    /\ current_exam = None
    /\ answer_keys = None
    /\ processed_results = <<>>
    /\ message = "none"
    /\ warnings = <<>>
    /\ stats = RunStats(processed_results, None, None)
    /\ excel_data = None
    /\ detected_sets = <<>>
    /\ set_mapping = EmptyDict
    /\ uploaded_files = <<>>
    /\ default_set = ChooseIndividually
    /\ set_selectors = <<>>
    /\ file_set_mapping = EmptyDict
    /\ results = <<>>
    /\ percentages \in (Percent(0)..Percent(100)) \X (Percent(0)..Percent(100))
    /\ grades = <<>>

\* lines 884-895 for each of the two percentages
ApplyGrade ==
    /\ percentages # <<>>
    /\ grades = <<>>
    /\ grades' = <<Grade(percentages[1]), Grade(percentages[2])>>
    /\ UNCHANGED <<now, current_page, current_exam, answer_keys, processed_results,
                   message, warnings, stats, excel_data, detected_sets, set_mapping,
                   uploaded_files, default_set, set_selectors, file_set_mapping,
                   results, percentages>>

NextLadder == ApplyGrade

SpecLadder == InitLadder /\ [][NextLadder]_vars

-----------------------------------------------------------------------------
(* The session: initialize_session_state and the runs of the pages *)

\* the last second of the session
MaxClock == 1

\* the most results the log holds
MaxResults == 2

\* titles typed into the form: one that is not blank, and two that are
ExamTitles == {<<"E", "x", "a", "m", " ">>, <<" ", " ">>, <<>>}

\* total question counts and subject counts entered in the form, within the
\* limits of the number inputs (lines 430-458); in the last form the subject
\* counts do not sum to the total
ExamForms ==
    {[total_questions |-> DefaultTotalQuestions,
      counts |-> [i \in DOMAIN Subjects |-> DefaultSubjectQuestions]],
     [total_questions |-> 20, counts |-> <<4, 4, 4, 4, 4>>],
     [total_questions |-> 20, counts |-> <<4, 4, 4, 4, 0>>]}

\* the choices made in "Expected Question Sets"
ExpectedSetChoices == {<<"A", "B">>, <<"A", "B", "C", "D">>}

\* the workbooks uploaded in a session
SessionWorkbooks ==
    {Workbook(q) : q \in {<<SetA, SetB>>, <<AnswersSheet, SetA>>, <<Sheet1>>}}
    \cup {NarrowWorkbook(<<SetA, SetB>>)}

\* an image uploaded in a session, for an exam of n questions: a blank sheet
SessionFile(f, n) == [name |-> f, marks |-> [q \in 1..n |-> {}]]

\* the batches uploaded in a session: one file, two files, and two files of
\* the same name
SessionBatches(n) ==
    {<<SessionFile("sheet1.jpg", n)>>,
     <<SessionFile("sheet1.jpg", n), SessionFile("sheet2.jpg", n)>>,
     <<SessionFile("sheet1.jpg", n), SessionFile("sheet1.jpg", n)>>}

\* the random numbers drawn in a session: the least total (55), the greatest
\* (100) and the total 80
SessionDraws ==
    {[base_score |-> 70, deltas |-> [i \in DOMAIN Subjects |-> -3]],
     [base_score |-> 94, deltas |-> [i \in DOMAIN Subjects |-> 3]],
     [base_score |-> 80, deltas |-> [i \in DOMAIN Subjects |-> 0]]}

\* lines 46-56, on the first run of a session
Init ==
    /\ now = 0
    /\ current_page = HomePage
    /\ current_exam = None
    /\ answer_keys = None
    /\ processed_results = <<>>
    /\ message = "none"
    /\ warnings = <<>>
    /\ stats = RunStats(processed_results, None, None)
    /\ excel_data = None
    /\ detected_sets = <<>>
    /\ set_mapping = EmptyDict
    /\ uploaded_files = <<>>
    /\ default_set = ChooseIndividually
    /\ set_selectors = <<>>
    /\ file_set_mapping = EmptyDict
    /\ results = <<>>
    /\ percentages = <<>>
    /\ grades = <<>>

\* a second passes, between two runs or within one (the sleeps of lines 636
\* and 844)
Tick ==
    /\ now < MaxClock
    /\ now' = now + 1
    /\ UNCHANGED <<current_page, current_exam, answer_keys, processed_results,
                   message, warnings, stats, excel_data, detected_sets, set_mapping, uploaded_files,
                   default_set, set_selectors, file_set_mapping, results,
                   percentages, grades>>

\* lines 147-169: another page is chosen in the sidebar; the widgets of the
\* page that is left are gone with what they held
Navigate(page) ==
    /\ page # current_page
    /\ current_page' = page
    /\ message' = "none"
    /\ warnings' = <<>>
    /\ stats' = RunStats(processed_results, None,
                         IF page = ResultsPage
                         THEN view_results_page(processed_results) ELSE None)
    /\ excel_data' = None
    /\ detected_sets' = <<>>
    /\ set_mapping' = EmptyDict
    /\ uploaded_files' = <<>>
    /\ default_set' = ChooseIndividually
    /\ set_selectors' = <<>>
    /\ file_set_mapping' = EmptyDict
    /\ results' = <<>>
    /\ UNCHANGED <<now, current_exam, answer_keys, processed_results,
                   percentages, grades>>

\* line 461: total_configured
TotalConfigured(counts) == SumSeq(counts)

\* the counts differ only when more questions are configured than the total
CountsExceed(total_configured, total_questions) ==
    total_configured > total_questions

\* lines 462 and 475: total_configured != total_questions
CountsMismatch(total_configured, total_questions) ==
    total_configured # total_questions

\* line 463: the text shown in the form
DontMatch(total_configured, total_questions) ==
    "Subject questions (" \o ToString(total_configured)
        \o ") don't match total questions (" \o ToString(total_questions) \o ")"

\* lines 473-476: what the submit shows when it refuses the form, "none"
\* when it does not
FormError(exam_title, total_questions, counts) ==
    IF strip(exam_title) = <<>> THEN "Exam title is required"
    ELSE IF CountsMismatch(TotalConfigured(counts), total_questions)
    THEN "Subject question counts must match total questions"
    ELSE "none"

\* the exam of the session after a submit that drops it when the form is
\* refused
ExamDroppedOnError(error, exam_data) ==
    IF error # "none" THEN None ELSE Some(exam_data)

\* lines 472-497: current_exam after the submit
ExamAfterSubmit(error, exam_data) ==
    IF error # "none" THEN current_exam ELSE Some(exam_data)

\* the run started by "Create Exam Session": lines 460-497
CreateExam(exam_title, total_questions, expected_sets, counts) ==
    /\ current_page = CreateExamPage
    /\ LET error == FormError(exam_title, total_questions, counts)
       IN  /\ message' = IF error # "none" THEN error
                         ELSE "Exam session created successfully"
           /\ current_exam' = ExamAfterSubmit(error,
                                  ExamData(exam_title, total_questions,
                                           expected_sets, counts))
    /\ warnings' = IF CountsMismatch(TotalConfigured(counts), total_questions)
                   THEN <<DontMatch(TotalConfigured(counts), total_questions)>>
                   ELSE <<>>
    /\ stats' = RunStats(processed_results, None, None)
    /\ UNCHANGED <<now, current_page, answer_keys, processed_results,
                   excel_data, detected_sets, set_mapping, uploaded_files,
                   default_set, set_selectors, file_set_mapping, results,
                   percentages, grades>>

\* lines 548-578: a workbook is put into the uploader and the page runs
UploadKeyFile(workbook) ==
    /\ current_page = UploadKeysPage
    /\ Truthy(current_exam)
    /\ excel_data' = Some(workbook)
    /\ LET st == DetectLoop(DictKeys(workbook), 1, FreshDetection)
       IN  /\ detected_sets' = st.detected_sets
           /\ set_mapping' = st.set_mapping
    /\ message' = "File loaded successfully"
    /\ warnings' = PreviewWarnings(workbook, 1)
    /\ stats' = RunStats(processed_results, None, None)
    /\ UNCHANGED <<now, current_page, current_exam, answer_keys, processed_results,
                   uploaded_files, default_set, set_selectors, file_set_mapping,
                   results, percentages, grades>>

\* lines 728-796: files are put into the uploader, a default set or a set
\* for each file is selected, and the page runs
UploadOMRSheets(files, default, selectors) ==
    /\ current_page = ProcessPage
    /\ Truthy(current_exam)
    /\ Truthy(answer_keys)
    /\ uploaded_files' = files
    /\ default_set' = default
    /\ set_selectors' = selectors
    /\ file_set_mapping' = FileSetMapping(files, default, selectors)
    /\ results' = <<>>
    /\ message' = "files uploaded"
    /\ warnings' = <<>>
    /\ stats' = RunStats(processed_results, None, None)
    /\ UNCHANGED <<now, current_page, current_exam, answer_keys, processed_results,
                   excel_data, detected_sets, set_mapping, percentages, grades>>

\* the choices the process page offers for the files it shows: a default set
\* with every selectbox left at its first option, or a set for each file
SetChoices(files, available_sets) ==
    {[default |-> d, selectors |-> [i \in DOMAIN files |-> available_sets[1]]] :
         d \in Range(available_sets)}
    \cup
    {[default |-> ChooseIndividually, selectors |-> sel] :
         sel \in [DOMAIN files -> Range(available_sets)]}

\* files are uploaded on the process page and their sets are chosen
SelectOMRSheets ==
    /\ Truthy(current_exam)
    /\ Truthy(answer_keys)
    /\ \E files \in SessionBatches(Value(current_exam).total_questions) :
          \E choice \in SetChoices(files, Value(answer_keys).available_sets) :
              UploadOMRSheets(files, choice.default, choice.selectors)

\* a batch is processed, while the log has room for its results
ProcessBatch ==
    /\ Len(processed_results) + Len(uploaded_files) <= MaxResults
    /\ \E draws \in [DOMAIN uploaded_files -> SessionDraws] : ProcessAllOMRSheets(draws)

Next ==
    \/ Tick
    \/ \E page \in Pages : Navigate(page)
    \/ \E exam_title \in ExamTitles, form \in ExamForms, expected_sets \in ExpectedSetChoices :
          CreateExam(exam_title, form.total_questions, expected_sets, form.counts)
    \/ \E workbook \in SessionWorkbooks : UploadKeyFile(workbook)
    \/ RerunUploadPage
    \/ ProcessAnswerKeys
    \/ SelectOMRSheets
    \/ ProcessBatch

Spec == Init /\ [][Next]_vars

-----------------------------------------------------------------------------
(* The statistics on their own: a session with the default exam and the     *)
(* keys of sets A, B and C whose log holds any results of sets A and B, and *)
(* the runs that show statistics.                                           *)

\* the most results the log holds at the start
MaxLog == 3

\* the random numbers drawn for the results of the log: those of the totals
\* 55, 79, 80 and 100
StatDraws ==
    {[base_score |-> 70, deltas |-> [i \in DOMAIN Subjects |-> -3]],
     [base_score |-> 80, deltas |-> [i \in DOMAIN Subjects |-> IF i = 1 THEN -1 ELSE 0]],
     [base_score |-> 80, deltas |-> [i \in DOMAIN Subjects |-> 0]],
     [base_score |-> 94, deltas |-> [i \in DOMAIN Subjects |-> 3]]}

\* the keys stored from a workbook with the sheets "Set - A", "Set - B" and
\* "Set - C"
StatKeys ==
    LET st == DetectSets(<<SetA, SetB, SetC>>)
    IN  KeysInfo(st.detected_sets, st.set_mapping, DefaultExam)

\* the results of sheets of sets A and B
StatResults ==
    {generate_processing_result("sheet1.jpg", s, StatKeys, d.base_score, d.deltas) :
         s \in {"A", "B"}, d \in StatDraws}

StatLogs == UNION {[1..n -> StatResults] : n \in 0..MaxLog}

InitStats ==
    /\ now = 0
    /\ current_page = HomePage
    /\ current_exam = Some(DefaultExam)
    /\ answer_keys = Some(StatKeys)
    /\ processed_results \in StatLogs
    /\ message = "none"
    /\ warnings = <<>>
    /\ stats = RunStats(processed_results, None, None)
    /\ excel_data = None
    /\ detected_sets = <<>>
    /\ set_mapping = EmptyDict
    /\ uploaded_files = <<>>
    /\ default_set = ChooseIndividually
    /\ set_selectors = <<>>
    /\ file_set_mapping = EmptyDict
    /\ results = <<>>
    /\ percentages = <<>>
    /\ grades = <<>>

NextStats ==
    \/ \E page \in Pages : Navigate(page)
    \/ SelectOMRSheets
    \/ ProcessBatch

SpecStats == InitStats /\ [][NextStats]_vars

-----------------------------------------------------------------------------
(* Claims about set detection, under SpecDetect *)

\* the sheet names of the uploaded workbook, in workbook order
sheet_names == DictKeys(Value(excel_data))

\* the page has run on the uploaded workbook, so detected_sets and set_mapping
\* are the ones it computed
DetectionRan == excel_data # None /\ message # "none"

Digits == <<"0", "1", "2", "3", "4", "5", "6", "7", "8", "9">>

IsAlnum(c) == In(c, UpperCase) \/ In(c, LowerCase) \/ In(c, Digits)

\* letter occurs in s as a single-letter token: with no letter or digit next to it
HasToken(s, letter) ==
    \E i \in DOMAIN s :
        /\ s[i] = letter
        /\ (i > 1 => ~IsAlnum(s[i - 1]))
        /\ (i < Len(s) => ~IsAlnum(s[i + 1]))

\* the labelling C1 describes: each name, in input order, gets the first of
\* A, B, C, D that is a single-letter token of its upper-cased form and was not
\* given to an earlier name
RECURSIVE TokenScan(_, _, _)
TokenScan(name, k, st) ==
    IF k > Len(SetLetters) THEN st
    ELSE IF HasToken(upper(name), SetLetters[k]) /\ ~In(SetLetters[k], st.detected_sets)
         THEN [detected_sets |-> Append(st.detected_sets, SetLetters[k]),
               set_mapping |-> DictSet(st.set_mapping, SetLetters[k], name)]
         ELSE TokenScan(name, k + 1, st)

RECURSIVE TokenLoop(_, _, _)
TokenLoop(names, i, st) ==
    IF i > Len(names) THEN st
    ELSE TokenLoop(names, i + 1, TokenScan(names[i], 1, st))

TokenLabelling(names) ==
    TokenLoop(names, 1, [detected_sets |-> <<>>, set_mapping |-> EmptyDict])

\* s without its i-th element
RemoveAt(s, i) == SubSeq(s, 1, i - 1) \o SubSeq(s, i + 1, Len(s))

\* the labels the sheet called name got
LabelsOf(name) == {set_mapping[i].key : i \in {j \in DOMAIN set_mapping :
                                                  set_mapping[j].value = name}}

\* C1: once the page has run on a workbook, every sheet name has the first
\* label in the order A, B, C, D that is a single-letter token of its
\* upper-cased form and was not given to an earlier sheet, and no sheet name
\* has more than one label.
C1_TokenLabelling ==
    DetectionRan =>
        /\ set_mapping = TokenLabelling(sheet_names).set_mapping
        /\ detected_sets = TokenLabelling(sheet_names).detected_sets
        /\ \A i \in DOMAIN sheet_names : Cardinality(LabelsOf(sheet_names[i])) <= 1

\* C2: once the page has run on a workbook with a sheet "Answers Sheet", that
\* sheet has no label and the other sheets have the labels they have in the
\* workbook without it.
C2_AnswersSheetIgnored ==
    (DetectionRan /\ In(AnswersSheet, sheet_names)) =>
        /\ LabelsOf(AnswersSheet) = {}
        /\ \E i \in DOMAIN sheet_names :
              /\ sheet_names[i] = AnswersSheet
              /\ set_mapping = DetectSets(RemoveAt(sheet_names, i)).set_mapping

\* the letters of A, B, C, D that occur in the upper-cased name
Candidates(name) == {l \in Range(SetLetters) : In(l, upper(name))}

\* the letters the sheets before the i-th have claimed
ClaimedBefore(names, i) == Range(DetectSets(SubSeq(names, 1, i - 1)).detected_sets)

\* the i-th sheet has no candidate letter left: none of A, B, C, D occurs in
\* its name, or each that occurs is claimed by an earlier sheet
NothingLeftFor(names, i) == Candidates(names[i]) \subseteq ClaimedBefore(names, i)

SetSheet(x) == <<"S", "e", "t", " ", "-", " ", x>>

\* C4: once the page has run on a workbook whose sheets are "Set - X" for
\* distinct X among A, B, C, D, in any order, the mapping has exactly one
\* entry per sheet, and it takes X to "Set - X".
C4_SetSheetsMapped ==
    (DetectionRan /\ sheet_names # <<>>
        /\ Range(sheet_names) \subseteq {SetSheet(x) : x \in Range(SetLetters)}) =>
        /\ Len(set_mapping) = Len(sheet_names)
        /\ Range(detected_sets) = {x \in Range(SetLetters) : In(SetSheet(x), sheet_names)}
        /\ \A x \in Range(SetLetters) :
              In(SetSheet(x), sheet_names) =>
                  DictHas(set_mapping, x) /\ DictGet(set_mapping, x) = SetSheet(x)

\* the four sheets, not in the order of their letters, each mapped by its letter
C4_Witness ==
    /\ DetectionRan
    /\ sheet_names = <<SetD, SetB, SetA, SetC>>
    /\ \A x \in Range(SetLetters) : DictGet(set_mapping, x) = SetSheet(x)

\* C5: a run of the page on the workbook an earlier run has seen computes the
\* same list of detected labels and the same mapping as that run.
C5_RerunSameDetection ==
    [][(DetectionRan /\ excel_data' = excel_data) =>
           (detected_sets' = detected_sets /\ set_mapping' = set_mapping)]_vars

\* the keys were stored by one run and the page ran again on the same
\* workbook, with more than one label detected both times
C5_Witness ==
    /\ DetectionRan
    /\ Truthy(answer_keys)
    /\ message = "File loaded successfully"
    /\ Len(detected_sets) >= 2
    /\ Value(answer_keys).available_sets = detected_sets
    /\ Value(answer_keys).set_mapping = set_mapping

-----------------------------------------------------------------------------
(* Claims about scoring, under SpecScore and SpecLadder *)

\* the questions of the current exam
Questions == 1..Value(current_exam).total_questions

\* the key of a set, for the current exam
KeyOf(set_letter) == KeyAnswers(set_letter, Value(current_exam).total_questions)

\* the number of questions on which the i-th uploaded sheet marks exactly the
\* accepted letters of the set selected for it
ExactMatches(i) ==
    Cardinality({q \in Questions :
                    uploaded_files[i].marks[q] = KeyOf(results[i].selected_set)[q]})

\* C6: the correct count of a scored sheet is the number of questions whose
\* marked letters are exactly the accepted letters of the set assigned to it;
\* a blank, a strict subset or a superset does not count.
C6_CorrectCountIsExactMatches ==
    \A i \in DOMAIN results : results[i].total_correct = ExactMatches(i)

\* C7: a sheet with no mark at all is scored with zero correct answers in
\* every subject, overall correct 0 and overall percentage 0.
C7_BlankSheetScoresZero ==
    \A i \in DOMAIN results :
        (\A q \in Questions : uploaded_files[i].marks[q] = {}) =>
            /\ results[i].total_correct = 0
            /\ results[i].overall_score = Percent(0)
            /\ \A k \in DOMAIN results[i].subject_scores :
                  results[i].subject_scores[k].value.correct = 0

\* the tier of the ladder a percentage lies in
LadderGrade(p) ==
    CASE p >= Percent(90) -> "A+"
      [] p >= Percent(85) /\ p < Percent(90) -> "A"
      [] p >= Percent(80) /\ p < Percent(85) -> "A-"
      [] p >= Percent(75) /\ p < Percent(80) -> "B+"
      [] p >= Percent(70) /\ p < Percent(75) -> "B"
      [] p < Percent(70) -> "B-"

\* C8: every result of a batch, and every result appended to the log,
\* carries the grade of the tier its overall percentage lies in: from 90 A+,
\* from 85 A, from 80 A-, from 75 B+, from 70 B, below 70 B-.
C8_GradeFollowsLadder ==
    /\ \A i \in DOMAIN results :
          results[i].grade = LadderGrade(results[i].overall_score)
    /\ \A i \in DOMAIN processed_results :
          processed_results[i].grade = LadderGrade(processed_results[i].overall_score)

\* a result whose percentage is exactly 85 was graded A and appended to the log
C8_Witness ==
    \E i \in DOMAIN processed_results :
        /\ processed_results[i].overall_score = Percent(85)
        /\ processed_results[i].grade = "A"

\* the grades, lowest first
GradeOrder == <<"B-", "B", "B+", "A-", "A", "A+">>

GradeRank(g) == CHOOSE k \in DOMAIN GradeOrder : GradeOrder[k] = g

\* the lower bound of each grade's tier
TierFloor(g) ==
    CASE g = "A+" -> Percent(90) [] g = "A" -> Percent(85) [] g = "A-" -> Percent(80)
      [] g = "B+" -> Percent(75) [] g = "B" -> Percent(70) [] g = "B-" -> Percent(0)

\* C9: for percentages p and q between 0 and 100, the grade calculation gives
\* each one of the six grades, the only one whose tier holds it, and the grade
\* of q is not lower than the grade of p when p <= q.
C9_LadderTotalMonotone ==
    grades # <<>> =>
        /\ \A k \in {1, 2} :
              /\ In(grades[k], GradeOrder)
              /\ {g \in Range(GradeOrder) :
                     /\ percentages[k] >= TierFloor(g)
                     /\ \A h \in Range(GradeOrder) :
                           GradeRank(h) > GradeRank(g) => percentages[k] < TierFloor(h)}
                 = {grades[k]}
        /\ (percentages[1] <= percentages[2] =>
               GradeRank(grades[1]) <= GradeRank(grades[2]))

\* the grades of a percentage just below 85 and of 85 itself were computed
C9_Witness ==
    /\ grades = <<"A-", "A">>
    /\ percentages = <<Percent(85) - 1, Percent(85)>>

\* the correct count a result records for a subject
CorrectOf(r, subject) == DictGet(r.subject_scores, subject).correct

\* C10: in every result of a batch, and in every result in the log, the
\* overall correct count is the sum of the five subjects' correct
\* counts.
C10_TotalIsSumOfSubjects ==
    \A r \in Range(results) \cup Range(processed_results) :
        r.total_correct =
            CorrectOf(r, "PYTHON") + CorrectOf(r, "DATA_ANALYSIS") + CorrectOf(r, "MySQL")
              + CorrectOf(r, "POWER_BI") + CorrectOf(r, "ADV_STATS")

\* a result whose subjects have five different correct counts
C10_Witness ==
    \E r \in Range(processed_results) :
        /\ Cardinality({r.subject_scores[k].value.correct : k \in DOMAIN r.subject_scores}) = 5
        /\ r.total_correct > 5 * SubjectFloor

-----------------------------------------------------------------------------
(* Claims about the results of a batch and the exam of the session, under   *)
(* Spec. While results holds a batch the page is the process page, so that  *)
(* current_exam is the exam the batch was processed for.                    *)

\* the exam of the batch in results
BatchExam == Value(current_exam)

\* C11: the overall percentage of every result equals 100 times its overall
\* correct count divided by the total question count of the exam it belongs
\* to, whatever total (20 to 200) the exam was created with
C11_PercentageOfExamTotal ==
    \A i \in DOMAIN results :
        results[i].overall_score * BatchExam.total_questions
            = Percent(100) * results[i].total_correct

\* C12: the overall correct count of every result lies between 0 and the
\* total question count of the active exam, and its overall percentage lies
\* between 0 and 100
C12_CorrectWithinExamTotal ==
    \A i \in DOMAIN results :
        /\ results[i].total_correct \in 0..BatchExam.total_questions
        /\ results[i].overall_score >= Percent(0)
        /\ results[i].overall_score <= Percent(100)

\* C13: every subject score of a result has as its question count the count
\* the exam declares for that subject, and a correct count within it
C13_SubjectCountsOfExam ==
    \A i \in DOMAIN results :
        \A j \in DOMAIN Subjects :
            LET score == DictGet(results[i].subject_scores, Subjects[j])
            IN  /\ score.total = DictGet(BatchExam.subject_config, Subjects[j])
                /\ score.correct \in 0..score.total

-----------------------------------------------------------------------------
(* Claims about the creation of an exam, under Spec *)

\* what the submit of lines 472-476 shows when it refuses the form
FormErrors ==
    {"Exam title is required", "Subject question counts must match total questions"}

\* the subject counts of an exam sum to its total and its title is not blank
WellFormedExam(exam) ==
    /\ SumSeq(DictValues(exam.subject_config)) = exam.total_questions
    /\ exam.title # <<>>
    /\ exam.title = strip(exam.title)

\* C14: a submission that is refused with an error leaves the current exam,
\* the stored keys and the results log as they were, and the current exam,
\* once set, always has subject counts that sum to its total question count
\* (and a title that is not blank)
C14_RefusedSubmitChangesNothing ==
    [][/\ message' \in FormErrors
            => UNCHANGED <<current_exam, answer_keys, processed_results>>
       /\ Truthy(current_exam') => WellFormedExam(Value(current_exam'))]_vars

\* a form was refused for its counts in a session that has an exam, keys and
\* results
C14_Witness ==
    /\ message = "Subject question counts must match total questions"
    /\ Len(warnings) = 1
    /\ Truthy(current_exam)
    /\ Truthy(answer_keys)
    /\ processed_results # <<>>

-----------------------------------------------------------------------------
(* Claims about the stored answer keys, under Spec *)

\* some table of the workbook has fewer columns than there are subjects
HasNarrowTable(workbook) ==
    \E i \in DOMAIN workbook : workbook[i].value.columns < Len(Subjects)

\* C15: when a table of the uploaded key workbook has fewer columns than the
\* five subjects, processing the keys fails with an error and does not end
\* with the keys stored
C15_NarrowTableRefused ==
    (excel_data # None /\ HasNarrowTable(Value(excel_data)))
        => message # "Answer keys processed and validated successfully"

\* none of A, B, C, D occurs in the upper-cased name of any sheet
NoLabelInWorkbook(workbook) ==
    \A i \in DOMAIN workbook : Candidates(workbook[i].key) = {}

\* the sets of the stored keys are the keys of the stored mapping, there is
\* at least one, and each occurs in the name of the sheet it is mapped to
KeysFromDetection(keys) ==
    /\ keys.available_sets = DictKeys(keys.set_mapping)
    /\ keys.available_sets # <<>>
    /\ \A i \in DOMAIN keys.set_mapping :
          In(keys.set_mapping[i].key, upper(keys.set_mapping[i].value))

\* C16: in every step, the stored keys have as their available sets exactly
\* the keys of the detected mapping, at least one, detected in the sheet names
\* and not taken from the exam's expected sets; a run of "Process Answer Keys"
\* on a workbook with no label in any sheet name reports the validation
\* failure, and a run that reports it leaves the stored keys as they were
C16_AvailableSetsAreDetected ==
    [][/\ Truthy(answer_keys') => KeysFromDetection(Value(answer_keys'))
       /\ answer_keys' # answer_keys
            => /\ Value(answer_keys').available_sets = detected_sets'
               /\ Value(answer_keys').set_mapping = set_mapping'
               /\ ~NoLabelInWorkbook(Value(excel_data'))
       /\ (/\ excel_data' # None
           /\ NoLabelInWorkbook(Value(excel_data'))
           /\ message' # "File loaded successfully")
            => message' = "Answer key validation failed"
       /\ message' = "Answer key validation failed"
            => answer_keys' = answer_keys]_vars

\* validation failed for a workbook without labels while keys were stored
\* whose sets are not the expected sets of the exam
C16_Witness ==
    /\ message = "Answer key validation failed"
    /\ Truthy(answer_keys)
    /\ Value(answer_keys).available_sets # Value(current_exam).expected_sets

\* the expected sets of the exam that detection did not find in the workbook
AbsentExpectedSets ==
    Range(Value(current_exam).expected_sets) \ Range(detected_sets)

\* "Process Answer Keys" has run on a workbook in which a set was detected
\* and an expected set of the exam was not
ProcessedWithAbsentSets ==
    /\ current_page = UploadKeysPage
    /\ excel_data # None
    /\ message # "File loaded successfully"
    /\ ~NoLabelInWorkbook(Value(excel_data))
    /\ AbsentExpectedSets # {}

\* C17: processing the keys of a workbook in which at least one set is
\* detected succeeds although expected sets are absent, the absent sets are
\* not among the available sets, and the run shows a warning, not an error,
\* about their absence
C17_AbsentSetsWarned ==
    ProcessedWithAbsentSets
        => /\ message = "Answer keys processed and validated successfully"
           /\ Range(Value(answer_keys).available_sets) \cap AbsentExpectedSets = {}
           /\ Range(warnings) \ Range(PreviewWarnings(Value(excel_data), 1)) # {}

-----------------------------------------------------------------------------
(* Claims about the order of the workflow and the results log, under Spec *)

\* C18: keys are stored only in a session with a current exam, results are
\* appended only in a session with a current exam and stored keys, a log that
\* is not empty implies that the exam and the keys are set, and stored keys
\* imply a current exam
C18_WorkflowGating ==
    [][/\ answer_keys' # answer_keys
            => Truthy(current_exam) /\ Truthy(current_exam')
       /\ processed_results' # processed_results
            => Truthy(current_exam) /\ Truthy(answer_keys)
       /\ processed_results' # <<>>
            => Truthy(current_exam') /\ Truthy(answer_keys')
       /\ Truthy(answer_keys') => Truthy(current_exam')]_vars

\* a batch was appended to a log that held results
C18_Witness ==
    /\ message = "Processing completed successfully"
    /\ Len(processed_results) > Len(results)
    /\ Truthy(current_exam)
    /\ Truthy(answer_keys)

\* C19: every result of a batch carries the set the operator assigned to its
\* sheet, the default set when one is chosen and the sheet's own selection
\* otherwise, and that set is one of the available sets of the stored keys
C19_ResultCarriesAssignedSet ==
    \A i \in DOMAIN results :
        /\ results[i].selected_set = SelectedSet(default_set, set_selectors, i)
        /\ In(results[i].selected_set, Value(answer_keys).available_sets)

\* C20: in every step the log before the step is a prefix of the log after
\* it, and a step that changes the log appends to it the results of the
\* batch, one for each uploaded file, in the order of the batch
C20_LogAppendOnly ==
    [][/\ Len(processed_results') >= Len(processed_results)
       /\ SubSeq(processed_results', 1, Len(processed_results)) = processed_results
       /\ processed_results' # processed_results
            => /\ Len(processed_results')
                    = Len(processed_results) + Len(uploaded_files)
               /\ SubSeq(processed_results', Len(processed_results) + 1,
                         Len(processed_results')) = results']_vars

\* a second batch of one sheet was appended to the result of the first
C20_Witness ==
    /\ message = "Processing completed successfully"
    /\ Len(processed_results) = 2
    /\ Len(results) = 1
    /\ processed_results[2] = results[1]
    /\ processed_results[1] # processed_results[2]

-----------------------------------------------------------------------------
(* Claims about the effects of the runs, under Spec *)

\* C21: a run that scores the sheets of a batch changes neither the current
\* exam nor the stored keys, and the log changes only in such a run, by the
\* results collected for the batch being put at its end once
C21_ScoringHasNoSideEffects ==
    [][/\ message' = "Processing completed successfully"
            => UNCHANGED <<current_exam, answer_keys>>
       /\ processed_results' # processed_results
            => /\ message' = "Processing completed successfully"
               /\ Len(results') = Len(uploaded_files)
               /\ processed_results' = processed_results \o results']_vars

\* a batch of two sheets was scored and is the whole log
C21_Witness ==
    /\ message = "Processing completed successfully"
    /\ Len(results) = 2
    /\ processed_results = results
    /\ Truthy(current_exam)
    /\ Truthy(answer_keys)

-----------------------------------------------------------------------------
(* Claims about the statistics, under SpecStats.  The statistics of the      *)
(* results page are those of the log, and the statistics of a batch those    *)
(* of results, as long as the run that computed them is the last one.        *)

\* the sets that occur in the results
VariantsOf(rs) == {rs[i].selected_set : i \in DOMAIN rs}

\* the results of the set, in their order
WithSet(rs, set_type) ==
    LET OfSet(r) == r.selected_set = set_type
    IN  SelectSeq(rs, OfSet)

\* the sum of the percentages and their number; two means are equal when
\* both are
MeanOf(rs) == [sum |-> SumSeq(Scores(rs)), count |-> Len(rs)]

\* the breakdown has one entry for each set that occurs in the results and
\* no other, and the entry of a set has the number, not zero, and the mean
\* of the results of that set
BreakdownOf(keys, counts, means, rs) ==
    /\ Range(keys) = VariantsOf(rs)
    /\ Cardinality(Range(keys)) = Len(keys)
    /\ \A i \in DOMAIN keys :
          /\ counts[i] = Len(WithSet(rs, keys[i]))
          /\ counts[i] > 0
          /\ means[i] = MeanOf(WithSet(rs, keys[i]))
          /\ ~IsNaN(means[i])

\* C22: the breakdown by set of the results page and of a batch has an entry
\* for exactly the sets that occur in at least one result; the count of an
\* entry is the number of results of its set, never zero, and its mean the
\* mean percentage of those results; a set that is available in the keys but
\* has no result has no entry
C22_BreakdownBySet ==
    /\ Truthy(stats.analytics)
         => LET columns == Value(stats.analytics).set_columns
            IN  /\ BreakdownOf(DictKeys(columns),
                               [i \in DOMAIN columns |-> columns[i].value.count],
                               [i \in DOMAIN columns |-> columns[i].value.avg_set_score],
                               processed_results)
                /\ \A s \in Range(Value(answer_keys).available_sets) :
                      s \notin VariantsOf(processed_results) => ~DictHas(columns, s)
    /\ Truthy(stats.batch)
         => LET averages == Value(stats.batch).set_averages
            IN  /\ BreakdownOf(DictKeys(averages),
                               [i \in DOMAIN averages |-> averages[i].value.sheets],
                               [i \in DOMAIN averages |-> averages[i].value.avg_set_score],
                               results)
                /\ \A s \in Range(Value(answer_keys).available_sets) :
                      s \notin VariantsOf(results) => ~DictHas(averages, s)

\* the results page shows a log of three results, two of one set and one of
\* another, while a third set is available
C22_Witness ==
    /\ Truthy(stats.analytics)
    /\ Len(processed_results) = 3
    /\ Len(WithSet(processed_results, "B")) = 2
    /\ Len(WithSet(processed_results, "A")) = 1
    /\ processed_results[1].selected_set = "B"
    /\ In("C", Value(answer_keys).available_sets)
    /\ Len(Value(stats.analytics).set_columns) = 2

\* the number of results of at least 80 percent
AtLeast80(rs) == Cardinality({i \in DOMAIN rs : rs[i].overall_score >= Percent(80)})

\* the sum of the numbers f[x] for x in S
RECURSIVE SumOver(_, _)
SumOver(f, S) ==
    IF S = {} THEN 0
    ELSE LET x == CHOOSE y \in S : TRUE
         IN  f[x] + SumOver(f, S \ {x})

\* C23: the high-scorer count of the results page and of a batch is the
\* number of results whose overall percentage is 80 or more, 80 itself
\* included, which is also what the same threshold counts set by set
C23_HighScorersAtLeast80 ==
    /\ Truthy(stats.analytics)
         => /\ Value(stats.analytics).high_scorers = AtLeast80(processed_results)
            /\ Value(stats.analytics).high_scorers
                 = SumOver([s \in VariantsOf(processed_results) |->
                               AtLeast80(WithSet(processed_results, s))],
                           VariantsOf(processed_results))
    /\ Truthy(stats.batch)
         => /\ Value(stats.batch).high_scorers = AtLeast80(results)
            /\ Value(stats.batch).high_scorers
                 = SumOver([s \in VariantsOf(results) |-> AtLeast80(WithSet(results, s))],
                           VariantsOf(results))

\* the results page shows a log with a result of exactly 80 percent in each
\* of two sets and a result below 80 percent
C23_Witness ==
    /\ Truthy(stats.analytics)
    /\ Len(processed_results) = 3
    /\ processed_results[1].selected_set = "A"
    /\ processed_results[1].overall_score = Percent(80)
    /\ processed_results[2].selected_set = "B"
    /\ processed_results[2].overall_score = Percent(80)
    /\ processed_results[3].overall_score < Percent(80)
    /\ Value(stats.analytics).high_scorers = 2

-----------------------------------------------------------------------------
(* Claims about the statistics of a session, under Spec *)

\* the means the last run showed
MeansShown ==
    {stats.quick_stats.avg_score}
    \cup (IF Truthy(stats.batch)
          THEN {Value(stats.batch).avg_score}
               \cup {e.value.avg_set_score : e \in Range(Value(stats.batch).set_averages)}
          ELSE {})
    \cup (IF Truthy(stats.analytics)
          THEN {Value(stats.analytics).avg_score}
               \cup {e.value.avg_set_score : e \in Range(Value(stats.analytics).set_columns)}
          ELSE {})

\* C24: with an empty log the sidebar shows a count of zero and an average
\* of zero and the results page shows no statistics and no entry for any
\* set, and no mean that any run shows is nan, the mean of an empty list
C24_EmptyLogNoNaN ==
    /\ stats.quick_stats.processed_count = 0
         => stats.quick_stats.avg_score.sum = 0
    /\ (current_page = ResultsPage /\ processed_results = <<>>)
         => stats.analytics = None /\ stats.batch = None
    /\ \A mean \in MeansShown : ~IsNaN(mean)

\* the results page was opened with an empty log in a session that has an
\* exam and keys
C24_Witness ==
    /\ current_page = ResultsPage
    /\ processed_results = <<>>
    /\ stats.quick_stats.processed_count = 0
    /\ stats.analytics = None
    /\ Truthy(current_exam)
    /\ Truthy(answer_keys)

-----------------------------------------------------------------------------
(* More claims about the statistics, under SpecStats *)

\* the permutations of 1..n
OrdersOf(n) ==
    {p \in [1..n -> 1..n] : \A i, j \in 1..n : p[i] = p[j] => i = j}

\* the results in the order p
Permuted(rs, p) == [i \in DOMAIN rs |-> rs[p[i]]]

\* the counts of the statistics of the results page: the total, the high
\* scorers, and the count and the grade counts of each set, as sets of pairs
CountsOf(analytics) ==
    [total_processed |-> analytics.total_processed,
     high_scorers |-> analytics.high_scorers,
     set_counts |-> {<<e.key, e.value.count>> : e \in Range(analytics.set_columns)},
     grade_counts |-> {<<e.key, Range(e.value.grade_counts)>> :
                          e \in Range(analytics.set_columns)}]

\* C25: the statistics of the results page are those that aggregating the
\* log once more gives, and aggregating any permutation of the log gives the
\* same total, the same high-scorer count, and for each set the same count
\* and the same grade counts
C25_AggregationOfMultiset ==
    Truthy(stats.analytics)
        => /\ stats.analytics = view_results_page(processed_results)
           /\ \A p \in OrdersOf(Len(processed_results)) :
                 CountsOf(Value(view_results_page(Permuted(processed_results, p))))
                     = CountsOf(Value(stats.analytics))

\* the results page shows a log of three results in which a result of
\* another set stands between two results of one set, with three grades
C25_Witness ==
    /\ Truthy(stats.analytics)
    /\ Len(processed_results) = 3
    /\ processed_results[1].selected_set = "A"
    /\ processed_results[2].selected_set = "B"
    /\ processed_results[3].selected_set = "A"
    /\ Cardinality({processed_results[i].grade : i \in 1..3}) = 3

-----------------------------------------------------------------------------
(* More claims about the session, under Spec *)

\* C26: the current exam changes only in a run of the creation page that
\* accepts the form, which puts a new exam in its place; the upload of keys,
\* the processing of sheets, the results page and navigation leave every
\* field of it as it is
C26_ExamChangesOnlyByCreation ==
    [][current_exam' # current_exam
          => /\ current_page = CreateExamPage
             /\ current_page' = CreateExamPage
             /\ message' = "Exam session created successfully"
             /\ Truthy(current_exam')
             /\ WellFormedExam(Value(current_exam'))
             /\ UNCHANGED <<answer_keys, processed_results>>]_vars

\* a second exam took the place of the exam for which keys were stored and
\* sheets processed
C26_Witness ==
    /\ message = "Exam session created successfully"
    /\ Truthy(answer_keys)
    /\ processed_results # <<>>
    /\ Value(current_exam).total_questions # Value(answer_keys).total_questions

-----------------------------------------------------------------------------
(* One more claim about set detection, under SpecDetect *)

\* C27: once the page has run on a workbook, whose sheet names are distinct,
\* the detected labels have no duplicates and are the keys of the mapping in
\* insertion order, every mapped sheet is a sheet of the workbook, and no
\* sheet is mapped to by two labels
C27_MappingOneToOne ==
    DetectionRan
        => /\ \A i, j \in DOMAIN detected_sets :
                 detected_sets[i] = detected_sets[j] => i = j
           /\ detected_sets = DictKeys(set_mapping)
           /\ \A i \in DOMAIN set_mapping : In(set_mapping[i].value, sheet_names)
           /\ \A i, j \in DOMAIN set_mapping :
                 set_mapping[i].value = set_mapping[j].value => i = j

\* the page has run on a workbook in which a sheet whose name holds two of
\* the letters comes first, and three labels were detected
C27_Witness ==
    /\ DetectionRan
    /\ sheet_names # <<>>
    /\ Cardinality(Candidates(sheet_names[1])) >= 2
    /\ Len(detected_sets) >= 3

-----------------------------------------------------------------------------
(* Claims about the batch and the keys of a session, under Spec *)

\* C28: a processed batch has one result for each uploaded file, in upload
\* order, and when the sets are chosen individually the set of each result
\* is the one selected in the row of its own file, also when two files of
\* the batch have the same name
C28_OneResultPerFileOwnSet ==
    results # <<>>
        => /\ Len(results) = Len(uploaded_files)
           /\ \A i \in DOMAIN results :
                 /\ results[i].filename = uploaded_files[i].name
                 /\ default_set = ChooseIndividually
                      => results[i].selected_set = set_selectors[i]

\* C29: whenever keys are stored, the exam_id and the total_questions they
\* record are the id and the total_questions of the current exam, and every
\* result of a processed batch carries the id of the exam that is current
\* when the batch is processed
C29_KeysOfCurrentExam ==
    /\ Truthy(answer_keys)
         => /\ Value(answer_keys).exam_id = Value(current_exam).id
            /\ Value(answer_keys).total_questions = Value(current_exam).total_questions
    /\ \A i \in DOMAIN results : results[i].exam_id = BatchExam.id

-----------------------------------------------------------------------------
(* One more claim about the statistics, under SpecStats *)

\* the sum of the numbers of a dict
SumOfValues(d) == SumSeq(DictValues(d))

\* C30: in the analysis by set of the results page the counts of the sets
\* sum to the number of results of the log, the entry of a set holds the
\* scores and the grades of exactly the results of that set, and the grade
\* counts of a set sum to its count; the groups of a batch likewise hold
\* each result of the batch once, in the group of its set
C30_SetsPartitionResults ==
    /\ Truthy(stats.analytics)
         => LET analytics == Value(stats.analytics)
            IN  /\ SumSeq([i \in DOMAIN analytics.set_analysis |->
                              analytics.set_analysis[i].value.count])
                     = Len(processed_results)
                /\ analytics.total_processed = Len(processed_results)
                /\ \A i \in DOMAIN processed_results :
                      Cardinality({j \in DOMAIN analytics.set_analysis :
                                      analytics.set_analysis[j].key
                                          = processed_results[i].selected_set}) = 1
                /\ \A j \in DOMAIN analytics.set_analysis :
                      LET entry == analytics.set_analysis[j]
                          members == WithSet(processed_results, entry.key)
                      IN  /\ entry.value.count = Len(members)
                          /\ entry.value.scores = Scores(members)
                          /\ entry.value.grades = [k \in DOMAIN members |-> members[k].grade]
                          /\ SumOfValues(analytics.set_columns[j].value.grade_counts)
                               = entry.value.count
    /\ Truthy(stats.batch)
         => LET batch == Value(stats.batch)
            IN  /\ SumSeq([i \in DOMAIN batch.set_results |->
                              Len(batch.set_results[i].value)]) = Len(results)
                /\ batch.total_sheets = Len(results)
                /\ \A j \in DOMAIN batch.set_results :
                      batch.set_results[j].value = WithSet(results, batch.set_results[j].key)

\* the results page shows a log of three results of one set, two of them
\* with the same grade
C30_Witness ==
    /\ Truthy(stats.analytics)
    /\ Len(processed_results) = 3
    /\ VariantsOf(processed_results) = {"B"}
    /\ Cardinality({processed_results[i].grade : i \in 1..3}) = 2
    /\ Len(Value(stats.analytics).set_columns[1].value.grade_counts) = 2
====
